---- MODULE Spec2Model ----
(***************************************************************************)
(* Blogicum (django_sprint4): the blog application's database, its URL     *)
(* configuration and its class-based views, as a state machine.            *)
(*                                                                         *)
(* State: the rows of User, Category, Location, Post and Comments, the     *)
(* clock, the value timezone.now() had when blog/views.py was imported     *)
(* (PostListView.queryset is a class attribute, built once), and the       *)
(* response to the last request.                                           *)
(*                                                                         *)
(* A request goes through the URL resolver (blog/urls.py), which hands the *)
(* view the keyword arguments NAMED IN THE PATTERN; the view reads         *)
(* self.kwargs[...] by the names written in blog/views.py.  A missing key  *)
(* is Python's KeyError and a reverse() with keyword arguments the pattern *)
(* does not take is Django's NoReverseMatch: both are uncaught and end the *)
(* request as a server error (handler500).                                 *)
(*                                                                         *)
(* Abstractions: title, text and image of a post are left out (no view     *)
(* branches on them); a comment's text is a version number; a user's       *)
(* username is the user's id; a category is identified by its unique slug; *)
(* a listing is the set of posts of all its pages (paginate_by = 10 only   *)
(* cuts the ordered listing into pages).  Mutating views are modelled for  *)
(* the POST that submits the form.                                         *)
(***************************************************************************)
EXTENDS Integers, FiniteSets, Sequences, TLC

\* ---------------------------------------------------------------- bounds
MaxUsers == 2
MaxPosts == 2
MaxComments == 1
MaxCategories == 1
MaxLocations == 1
MaxTime == 1
MaxText == 1

\* the null foreign key, and request.user of an unauthenticated request
NULL == 0
ANON == 0

UserIds == 1..MaxUsers
PostIds == 1..MaxPosts
CommentIds == 1..MaxComments
Slugs == 1..MaxCategories
LocationIds == 1..MaxLocations
Times == 0..MaxTime
Texts == 0..MaxText

VARIABLES users, categories, locations, posts, nextPost,
          comments, nextComment, now, import_now, resp

vars == <<users, categories, locations, posts, nextPost,
          comments, nextComment, now, import_now, resp>>

db == <<users, categories, locations, posts, nextPost,
        comments, nextComment>>

\* ------------------------------------------------------------ responses
OK == "ok"
NOT_FOUND == "not_found"
SERVER_ERROR == "server_error"
REDIRECT_LOGIN == "redirect_login"
REDIRECT_DETAIL == "redirect_detail"
REDIRECT_PROFILE == "redirect_profile"
REDIRECT_INDEX == "redirect_index"
FORM_INVALID == "form_invalid"

\* What a view hands back: the status, the posts in the response (the
\* listing, the post shown, or the post a redirect points to), and the
\* Post and Comments tables after it.
Result(status, result, ps, cs) ==
    [status |-> status, result |-> result, posts |-> ps, comments |-> cs]

Unchanged(status, result) == Result(status, result, posts, comments)

\* ------------------------------------------------------------ URL config
\* blog/urls.py: the keyword arguments each named pattern captures.
UrlKwargs(name) ==
    CASE name = "index" -> {}
      [] name = "post_detail" -> {"pk"}
      [] name = "create_post" -> {}
      [] name = "edit_post" -> {"pk"}
      [] name = "delete_post" -> {"pk"}
      [] name = "profile" -> {"username"}
      [] name = "add_comment" -> {"pk"}
      [] name = "edit_comment" -> {"post_id", "comment_id"}
      [] name = "delete_comment" -> {"post_id", "comment_id"}
      [] name = "category_posts" -> {"slug"}

\* The resolver: a path matching pattern `name`, with the captured values
\* a (first converter) and b (second converter), gives the view its kwargs.
resolve(name, a, b) ==
    [k \in UrlKwargs(name) |-> IF k = "comment_id" THEN b ELSE a]

\* reverse(name, kwargs=kw): the pattern matches only its own parameter
\* names; anything else raises NoReverseMatch.
reverse(name, kw) == DOMAIN kw = UrlKwargs(name)

\* self.kwargs[key] raises KeyError unless the pattern captured `key`.
HasKey(kw, key) == key \in DOMAIN kw

\* --------------------------------------------------------------- models
\* Post.is_viewable(now, user), blog/models.py.  `self.category and ...`
\* is false for a null category.
is_viewable(p, t, user) ==
    \/ posts[p].author = user
    \/ ~ ( \/ posts[p].pub_date > t
           \/ ~posts[p].is_published
           \/ ( /\ posts[p].category # NULL
                /\ ~categories[posts[p].category] ) )

\* category__is_published=True: an inner join, so a null category never
\* matches.
category__is_published(p) ==
    /\ posts[p].category # NULL
    /\ categories[posts[p].category]

\* Mutant of CascadePost: the comments of a deleted post are kept.
CascadePost_Keep(cs, gone) == cs

\* Comments.post: on_delete CASCADE.  The comments left in cs once the
\* posts in gone are deleted.
CascadePost(cs, gone) ==
    [c \in {x \in DOMAIN cs : cs[x].post \notin gone} |-> cs[c]]

\* Post.location / Post.category: on_delete SET_NULL.
SetNullLocation(ps, l) ==
    [p \in DOMAIN ps |->
        IF ps[p].location = l THEN [ps[p] EXCEPT !.location = NULL] ELSE ps[p]]

SetNullCategory(ps, s) ==
    [p \in DOMAIN ps |->
        IF ps[p].category = s THEN [ps[p] EXCEPT !.category = NULL] ELSE ps[p]]

\* Post.author and Comments.author: on_delete CASCADE.  Deleting user u
\* deletes u's posts, the comments on them, and u's comments.
PostsAfterUserDelete(u) ==
    [p \in {x \in DOMAIN posts : posts[x].author # u} |-> posts[p]]

CommentsAfterUserDelete(u) ==
    LET gone == {x \in DOMAIN posts : posts[x].author = u}
        left == CascadePost(comments, gone)
    IN  [c \in {x \in DOMAIN left : left[x].author # u} |-> left[c]]

\* Post.objects.delete() of one post p, with its cascade.
PostsAfterPostDelete(p) ==
    [q \in DOMAIN posts \ {p} |-> posts[q]]

CommentsAfterPostDelete(p) == CascadePost(comments, {p})

\* ---------------------------------------------------------------- views
\* Mutant of PostListView_queryset: the category test of is_viewable (a
\* null category passes) in place of the join.
PostListView_queryset_NullPasses ==
    {p \in DOMAIN posts :
        /\ (posts[p].category = NULL \/ categories[posts[p].category])
        /\ posts[p].pub_date <= import_now
        /\ posts[p].is_published}

\* PostListView.queryset: a class attribute, so timezone.now() is the
\* value at import; the filter itself runs against the table on each
\* request (ListView.get_queryset clones it with .all()).
PostListView_queryset ==
    {p \in DOMAIN posts :
        /\ category__is_published(p)
        /\ posts[p].pub_date <= import_now
        /\ posts[p].is_published}

PostListView(kw, user) == Unchanged(OK, PostListView_queryset)

\* PostDetailView.get_object
PostDetailView_get_object(kw, user) ==
    IF ~HasKey(kw, "post_id") THEN Unchanged(SERVER_ERROR, {})
    ELSE IF kw["post_id"] \notin DOMAIN posts THEN Unchanged(NOT_FOUND, {})
    ELSE IF ~is_viewable(kw["post_id"], now, user) THEN Unchanged(NOT_FOUND, {})
    ELSE Unchanged(OK, {kw["post_id"]})

\* Mutant of filter_published_posts: the pub_date filter is missing.
filter_published_posts_NoDate(queryset, user, author) ==
    IF user = author THEN queryset
    ELSE {p \in queryset :
             /\ posts[p].is_published
             /\ category__is_published(p)}

\* Mutant of filter_published_posts: the is_published filter is missing.
filter_published_posts_NoFlag(queryset, user, author) ==
    IF user = author THEN queryset
    ELSE {p \in queryset :
             /\ posts[p].pub_date <= now
             /\ category__is_published(p)}

\* ProfileView.filter_published_posts(queryset, user, author)
filter_published_posts(queryset, user, author) ==
    IF user = author THEN queryset
    ELSE {p \in queryset :
             /\ posts[p].is_published
             /\ posts[p].pub_date <= now
             /\ category__is_published(p)}

\* ProfileView.get_queryset
ProfileView_get_queryset(kw, user) ==
    IF ~HasKey(kw, "username") THEN Unchanged(SERVER_ERROR, {})
    ELSE IF kw["username"] \notin users THEN Unchanged(NOT_FOUND, {})
    ELSE Unchanged(OK,
            filter_published_posts(
                {p \in DOMAIN posts : posts[p].author = kw["username"]},
                user, kw["username"]))

\* CategoryListView.get_queryset
CategoryListView_get_queryset(kw, user) ==
    IF ~HasKey(kw, "category_slug") THEN Unchanged(SERVER_ERROR, {})
    ELSE IF kw["category_slug"] \notin DOMAIN categories
         THEN Unchanged(NOT_FOUND, {})
    ELSE IF ~categories[kw["category_slug"]] THEN Unchanged(NOT_FOUND, {})
    ELSE Unchanged(OK,
            {p \in DOMAIN posts :
                /\ posts[p].category = kw["category_slug"]
                /\ posts[p].pub_date <= now
                /\ posts[p].is_published})

\* ------------------------------------------------------ submitted forms
\* PostForm.Meta.fields (title, text, image left out): is_published and
\* author are not form fields.  category is required (blank=False) and,
\* like location, must name an existing row.
PostForms ==
    [pub_date : Times, location : LocationIds \cup {NULL},
     category : Slugs \cup {NULL}]

PostForm_is_valid(form) ==
    /\ form.category \in DOMAIN categories
    /\ form.location \in locations \cup {NULL}

\* CommentForm.Meta.fields = ('text',); an empty text does not validate.
CommentForms == [text : Texts, valid : BOOLEAN]

\* redirect('blog:post_detail', post_id=p) and
\* reverse('blog:post_detail', kwargs={'post_id': p})
post_detail_url(p) == reverse("post_detail", [k \in {"post_id"} |-> p])

\* ------------------------------------------------------- mutating views
\* Mutant of PostCreateView: form_valid does not take the author from the
\* request.
PostCreateView_OtherAuthor(kw, user, form) ==
    IF user = ANON THEN Unchanged(REDIRECT_LOGIN, {})
    ELSE IF ~PostForm_is_valid(form) THEN Unchanged(FORM_INVALID, {})
    ELSE LET new == [author |-> CHOOSE u \in users : TRUE,
                     pub_date |-> form.pub_date,
                     is_published |-> TRUE, category |-> form.category,
                     location |-> form.location]
             ps == [p \in DOMAIN posts \cup {nextPost} |->
                       IF p = nextPost THEN new ELSE posts[p]]
         IN  Result(REDIRECT_PROFILE, {}, ps, comments)

\* PostCreateView: LoginRequiredMixin.dispatch comes first (the class
\* defines no dispatch of its own), then form_valid and get_success_url.
PostCreateView(kw, user, form) ==
    IF user = ANON THEN Unchanged(REDIRECT_LOGIN, {})
    ELSE IF ~PostForm_is_valid(form) THEN Unchanged(FORM_INVALID, {})
    ELSE LET new == [author |-> user, pub_date |-> form.pub_date,
                     is_published |-> TRUE, category |-> form.category,
                     location |-> form.location]
             ps == [p \in DOMAIN posts \cup {nextPost} |->
                       IF p = nextPost THEN new ELSE posts[p]]
         IN  IF reverse("profile", [k \in {"username"} |-> user])
             THEN Result(REDIRECT_PROFILE, {}, ps, comments)
             ELSE Result(SERVER_ERROR, {}, ps, comments)

\* UpdateView for Post, reached from PostUpdateView.dispatch through
\* super().dispatch: LoginRequiredMixin, get_object (pk_url_kwarg),
\* form.save(), get_success_url.
PostUpdateView_super(kw, user, form) ==
    IF user = ANON THEN Unchanged(REDIRECT_LOGIN, {})
    ELSE IF ~PostForm_is_valid(form) THEN Unchanged(FORM_INVALID, {})
    ELSE LET p == kw["post_id"]
             ps == [posts EXCEPT ![p].pub_date = form.pub_date,
                                 ![p].location = form.location,
                                 ![p].category = form.category]
         IN  IF post_detail_url(p)
             THEN Result(REDIRECT_DETAIL, {p}, ps, comments)
             ELSE Result(SERVER_ERROR, {}, ps, comments)

\* PostUpdateView.dispatch
PostUpdateView_dispatch(kw, user, form) ==
    IF ~HasKey(kw, "post_id") THEN Unchanged(SERVER_ERROR, {})
    ELSE IF kw["post_id"] \notin DOMAIN posts THEN Unchanged(NOT_FOUND, {})
    ELSE IF posts[kw["post_id"]].author # user
         THEN IF post_detail_url(kw["post_id"])
              THEN Unchanged(REDIRECT_DETAIL, {kw["post_id"]})
              ELSE Unchanged(SERVER_ERROR, {})
    ELSE PostUpdateView_super(kw, user, form)

\* DeleteView for Post, reached through super().dispatch:
\* LoginRequiredMixin, get_object, then success_url (reverse_lazy of
\* 'blog:index', which takes no arguments) and object.delete().
PostDeleteView_super(kw, user) ==
    IF user = ANON THEN Unchanged(REDIRECT_LOGIN, {})
    ELSE IF ~reverse("index", [k \in {} |-> NULL])
         THEN Unchanged(SERVER_ERROR, {})
    ELSE Result(REDIRECT_INDEX, {},
                PostsAfterPostDelete(kw["post_id"]),
                CommentsAfterPostDelete(kw["post_id"]))

\* PostDeleteView.dispatch
PostDeleteView_dispatch(kw, user) ==
    IF ~HasKey(kw, "post_id") THEN Unchanged(SERVER_ERROR, {})
    ELSE IF kw["post_id"] \notin DOMAIN posts THEN Unchanged(NOT_FOUND, {})
    ELSE IF posts[kw["post_id"]].author # user
         THEN IF post_detail_url(kw["post_id"])
              THEN Unchanged(REDIRECT_DETAIL, {kw["post_id"]})
              ELSE Unchanged(SERVER_ERROR, {})
    ELSE PostDeleteView_super(kw, user)

\* AddCommentView: LoginRequiredMixin.dispatch first, then form_valid
\* (or form_invalid) and get_success_url; the comment is saved before
\* the success URL is reversed.
AddCommentView(kw, user, form) ==
    IF user = ANON THEN Unchanged(REDIRECT_LOGIN, {})
    ELSE IF ~HasKey(kw, "post_id") THEN Unchanged(SERVER_ERROR, {})
    ELSE IF ~form.valid
         THEN IF post_detail_url(kw["post_id"])
              THEN Unchanged(REDIRECT_DETAIL, {kw["post_id"]})
              ELSE Unchanged(SERVER_ERROR, {})
    ELSE IF kw["post_id"] \notin DOMAIN posts THEN Unchanged(NOT_FOUND, {})
    ELSE LET new == [post |-> kw["post_id"], author |-> user,
                     text |-> form.text]
             cs == [c \in DOMAIN comments \cup {nextComment} |->
                       IF c = nextComment THEN new ELSE comments[c]]
         IN  IF post_detail_url(kw["post_id"])
             THEN Result(REDIRECT_DETAIL, {kw["post_id"]}, posts, cs)
             ELSE Result(SERVER_ERROR, {}, posts, cs)

\* Mutant of comment_lookup: the comment is looked up by id alone.
comment_lookup_AnyPost(post_id, comment_id) ==
    /\ post_id \in DOMAIN posts
    /\ comment_id \in DOMAIN comments

\* get_object_or_404(Comments, id=comment_id, post_id=post.pk) after
\* get_object_or_404(Post, pk=post_id): is there such a row?
comment_lookup(post_id, comment_id) ==
    /\ post_id \in DOMAIN posts
    /\ comment_id \in DOMAIN comments
    /\ comments[comment_id].post = post_id

\* UpdateView for Comments, reached through super().dispatch:
\* LoginRequiredMixin, CommentUpdateView.get_object, form.save(),
\* get_success_url.
CommentUpdateView_super(kw, user, form) ==
    IF user = ANON THEN Unchanged(REDIRECT_LOGIN, {})
    ELSE IF ~comment_lookup(kw["post_id"], kw["comment_id"])
         THEN Unchanged(NOT_FOUND, {})
    ELSE IF ~form.valid THEN Unchanged(FORM_INVALID, {})
    ELSE LET cs == [comments EXCEPT ![kw["comment_id"]].text = form.text]
         IN  IF post_detail_url(kw["post_id"])
             THEN Result(REDIRECT_DETAIL, {kw["post_id"]}, posts, cs)
             ELSE Result(SERVER_ERROR, {}, posts, cs)

\* CommentUpdateView.dispatch
CommentUpdateView_dispatch(kw, user, form) ==
    IF ~HasKey(kw, "post_id") \/ ~HasKey(kw, "comment_id")
    THEN Unchanged(SERVER_ERROR, {})
    ELSE IF ~comment_lookup(kw["post_id"], kw["comment_id"])
         THEN Unchanged(NOT_FOUND, {})
    ELSE IF comments[kw["comment_id"]].author # user
         THEN IF post_detail_url(kw["post_id"])
              THEN Unchanged(REDIRECT_DETAIL, {kw["post_id"]})
              ELSE Unchanged(SERVER_ERROR, {})
    ELSE CommentUpdateView_super(kw, user, form)

\* DeleteView for Comments, reached through super().dispatch:
\* LoginRequiredMixin, CommentDeleteView.get_object, then
\* get_success_url BEFORE object.delete() (DeletionMixin).
CommentDeleteView_super(kw, user) ==
    IF user = ANON THEN Unchanged(REDIRECT_LOGIN, {})
    ELSE IF ~comment_lookup(kw["post_id"], kw["comment_id"])
         THEN Unchanged(NOT_FOUND, {})
    ELSE IF ~post_detail_url(kw["post_id"]) THEN Unchanged(SERVER_ERROR, {})
    ELSE Result(REDIRECT_DETAIL, {kw["post_id"]}, posts,
                [c \in DOMAIN comments \ {kw["comment_id"]} |-> comments[c]])

\* CommentDeleteView.dispatch
CommentDeleteView_dispatch(kw, user) ==
    IF ~HasKey(kw, "post_id") \/ ~HasKey(kw, "comment_id")
    THEN Unchanged(SERVER_ERROR, {})
    ELSE IF ~comment_lookup(kw["post_id"], kw["comment_id"])
         THEN Unchanged(NOT_FOUND, {})
    ELSE IF comments[kw["comment_id"]].author # user
         THEN IF post_detail_url(kw["post_id"])
              THEN Unchanged(REDIRECT_DETAIL, {kw["post_id"]})
              ELSE Unchanged(SERVER_ERROR, {})
    ELSE CommentDeleteView_super(kw, user)

\* ------------------------------------------------------------ the state
\* No request answered yet, or the last step was not a request.
Idle ==
    [op |-> "none", user |-> ANON, a |-> NULL, b |-> NULL,
     status |-> "none", result |-> {}]

Init ==
    /\ users = {}
    /\ categories = [s \in {} |-> TRUE]
    /\ locations = {}
    /\ posts = [p \in {} |-> NULL]
    /\ nextPost = 1
    /\ comments = [c \in {} |-> NULL]
    /\ nextComment = 1
    /\ now = 0
    /\ import_now = 0
    /\ resp = Idle

\* request.user: a logged-in user that exists, or AnonymousUser.
Actors == users \cup {ANON}

\* One request: the pattern op matched with the captured values a and b,
\* the view returned r.  The tables are written and the response kept.
Respond(op, user, a, b, r) ==
    /\ posts' = r.posts
    /\ comments' = r.comments
    /\ nextPost' = IF nextPost \in DOMAIN r.posts THEN nextPost + 1 ELSE nextPost
    /\ nextComment' = IF nextComment \in DOMAIN r.comments
                      THEN nextComment + 1 ELSE nextComment
    /\ resp' = [op |-> op, user |-> user, a |-> a, b |-> b,
                status |-> r.status, result |-> r.result]
    /\ UNCHANGED <<users, categories, locations, now, import_now>>

\* ------------------------------------------------------------- requests
Index ==
    \E user \in Actors :
        Respond("index", user, NULL, NULL,
                PostListView(resolve("index", NULL, NULL), user))

PostDetail ==
    \E user \in Actors, a \in PostIds :
        Respond("post_detail", user, a, NULL,
                PostDetailView_get_object(resolve("post_detail", a, NULL), user))

Profile ==
    \E user \in Actors, a \in UserIds :
        Respond("profile", user, a, NULL,
                ProfileView_get_queryset(resolve("profile", a, NULL), user))

CategoryPosts ==
    \E user \in Actors, a \in Slugs :
        Respond("category_posts", user, a, NULL,
                CategoryListView_get_queryset(
                    resolve("category_posts", a, NULL), user))

CreatePost ==
    /\ nextPost <= MaxPosts
    /\ \E user \in Actors, form \in PostForms :
        Respond("create_post", user, NULL, NULL,
                PostCreateView(resolve("create_post", NULL, NULL), user, form))

EditPost ==
    \E user \in Actors, a \in PostIds, form \in PostForms :
        Respond("edit_post", user, a, NULL,
                PostUpdateView_dispatch(resolve("edit_post", a, NULL), user, form))

DeletePost ==
    \E user \in Actors, a \in PostIds :
        Respond("delete_post", user, a, NULL,
                PostDeleteView_dispatch(resolve("delete_post", a, NULL), user))

AddComment ==
    /\ nextComment <= MaxComments
    /\ \E user \in Actors, a \in PostIds, form \in CommentForms :
        Respond("add_comment", user, a, NULL,
                AddCommentView(resolve("add_comment", a, NULL), user, form))

EditComment ==
    \E user \in Actors, a \in PostIds, b \in CommentIds, form \in CommentForms :
        Respond("edit_comment", user, a, b,
                CommentUpdateView_dispatch(
                    resolve("edit_comment", a, b), user, form))

DeleteComment ==
    \E user \in Actors, a \in PostIds, b \in CommentIds :
        Respond("delete_comment", user, a, b,
                CommentDeleteView_dispatch(resolve("delete_comment", a, b), user))

\* auth/registration/: CreateView over UserCreationForm.  A user is known
\* by the username; the username of a deleted user is free again.
Registration ==
    /\ \E u \in UserIds \ users : users' = users \cup {u}
    /\ resp' = Idle
    /\ UNCHANGED <<categories, locations, posts, nextPost, comments,
                   nextComment, now, import_now>>

\* ---------------------------------------------------------------- admin
\* The admin site's add, change-list and delete pages for the registered
\* models, with the on_delete rules of blog/models.py.  A delete page
\* answers with the row deleted (a), the posts deleted or re-linked with
\* it (result) and the number of comments deleted with it (b).
AdminDeleted(op, a, result, cs) ==
    [op |-> op, user |-> ANON, a |-> a,
     b |-> Cardinality(DOMAIN comments \ DOMAIN cs),
     status |-> OK, result |-> result]

AdminAddCategory ==
    \E s \in Slugs \ DOMAIN categories, pub \in BOOLEAN :
        /\ categories' = [x \in DOMAIN categories \cup {s} |->
                             IF x = s THEN pub ELSE categories[x]]
        /\ resp' = Idle
        /\ UNCHANGED <<users, locations, posts, nextPost, comments,
                       nextComment, now, import_now>>

\* CategoryAdmin.list_editable = ('is_published',)
AdminSetCategoryPublished ==
    \E s \in DOMAIN categories :
        /\ categories' = [categories EXCEPT ![s] = ~categories[s]]
        /\ resp' = Idle
        /\ UNCHANGED <<users, locations, posts, nextPost, comments,
                       nextComment, now, import_now>>

AdminDeleteCategory ==
    \E s \in DOMAIN categories :
        /\ categories' = [x \in DOMAIN categories \ {s} |-> categories[x]]
        /\ posts' = SetNullCategory(posts, s)
        /\ resp' = AdminDeleted("admin_delete_category", s,
                     {p \in DOMAIN posts : posts[p].category = s}, comments)
        /\ UNCHANGED <<users, locations, nextPost, comments,
                       nextComment, now, import_now>>

AdminAddLocation ==
    \E l \in LocationIds \ locations :
        /\ locations' = locations \cup {l}
        /\ resp' = Idle
        /\ UNCHANGED <<users, categories, posts, nextPost, comments,
                       nextComment, now, import_now>>

AdminDeleteLocation ==
    \E l \in locations :
        /\ locations' = locations \ {l}
        /\ posts' = SetNullLocation(posts, l)
        /\ resp' = AdminDeleted("admin_delete_location", l,
                     {p \in DOMAIN posts : posts[p].location = l}, comments)
        /\ UNCHANGED <<users, categories, nextPost, comments,
                       nextComment, now, import_now>>

\* PostAdmin.list_editable = ('is_published', 'pub_date', 'category',
\* 'location'); category is required (blank=False).
AdminChangePost ==
    \E p \in DOMAIN posts, pub \in BOOLEAN, form \in PostForms :
        /\ PostForm_is_valid(form)
        /\ posts' = [posts EXCEPT ![p].is_published = pub,
                                  ![p].pub_date = form.pub_date,
                                  ![p].category = form.category,
                                  ![p].location = form.location]
        /\ resp' = Idle
        /\ UNCHANGED <<users, categories, locations, nextPost,
                       comments, nextComment, now, import_now>>

AdminDeletePost ==
    \E p \in DOMAIN posts :
        /\ posts' = PostsAfterPostDelete(p)
        /\ comments' = CommentsAfterPostDelete(p)
        /\ resp' = AdminDeleted("admin_delete_post", p, {p}, comments')
        /\ UNCHANGED <<users, categories, locations, nextPost,
                       nextComment, now, import_now>>

\* CommentAdmin: the add page takes text, post and author.
AdminAddComment ==
    /\ nextComment <= MaxComments
    /\ \E p \in DOMAIN posts, u \in users, t \in Texts :
        /\ comments' = [c \in DOMAIN comments \cup {nextComment} |->
                           IF c = nextComment
                           THEN [post |-> p, author |-> u, text |-> t]
                           ELSE comments[c]]
        /\ nextComment' = nextComment + 1
        /\ resp' = Idle
        /\ UNCHANGED <<users, categories, locations, posts,
                       nextPost, now, import_now>>

AdminDeleteComment ==
    \E c \in DOMAIN comments :
        /\ comments' = [x \in DOMAIN comments \ {c} |-> comments[x]]
        /\ resp' = Idle
        /\ UNCHANGED <<users, categories, locations, posts,
                       nextPost, nextComment, now, import_now>>

AdminDeleteUser ==
    \E u \in users :
        /\ users' = users \ {u}
        /\ posts' = PostsAfterUserDelete(u)
        /\ comments' = CommentsAfterUserDelete(u)
        /\ resp' = AdminDeleted("admin_delete_user", u,
                     DOMAIN posts \ DOMAIN posts', comments')
        /\ UNCHANGED <<categories, locations, nextPost,
                       nextComment, now, import_now>>

\* Time passes: timezone.now() grows, the imported queryset's value
\* does not.
Tick ==
    /\ now < MaxTime
    /\ now' = now + 1
    /\ resp' = Idle
    /\ UNCHANGED <<db, import_now>>

\* The whole application.
Next ==
    \/ Index
    \/ PostDetail
    \/ Profile
    \/ CategoryPosts
    \/ CreatePost
    \/ EditPost
    \/ DeletePost
    \/ AddComment
    \/ EditComment
    \/ DeleteComment
    \/ Registration
    \/ AdminAddCategory
    \/ AdminSetCategoryPublished
    \/ AdminDeleteCategory
    \/ AdminAddLocation
    \/ AdminDeleteLocation
    \/ AdminChangePost
    \/ AdminDeletePost
    \/ AdminAddComment
    \/ AdminDeleteComment
    \/ AdminDeleteUser
    \/ Tick

Spec == Init /\ [][Next]_vars

\* The listings and the detail page, with every step that writes what they
\* read: users, categories, the posts' author, pub_date, is_published and
\* category, and the clock.  Left out are the steps that write only
\* locations and comments, which no listing reads (with no location in
\* the table, a post's location stays null).
NextFeed ==
    \/ Index
    \/ PostDetail
    \/ Profile
    \/ CategoryPosts
    \/ CreatePost
    \/ EditPost
    \/ DeletePost
    \/ Registration
    \/ AdminAddCategory
    \/ AdminSetCategoryPublished
    \/ AdminDeleteCategory
    \/ AdminChangePost
    \/ AdminDeletePost
    \/ AdminDeleteUser
    \/ Tick

SpecFeed == Init /\ [][NextFeed]_vars

\* The edit and delete views, with every step that writes what they read:
\* users, which posts and comments exist, and their author and post.
\* Left out are the clock, the listings, and the admin's changes of flags,
\* dates, categories and locations.
NextGuard ==
    \/ CreatePost
    \/ AddComment
    \/ EditComment
    \/ DeleteComment
    \/ EditPost
    \/ DeletePost
    \/ Registration
    \/ AdminAddCategory
    \/ AdminDeletePost
    \/ AdminAddComment
    \/ AdminDeleteComment
    \/ AdminDeleteUser

SpecGuard == Init /\ [][NextGuard]_vars

\* The steps that create, re-link or delete rows: registration, post
\* creation and the admin site.  Left out are the clock, the listings, the
\* publication flag of a category, and the edit, delete and comment views
\* (SpecGuard has those).
NextData ==
    \/ CreatePost
    \/ Registration
    \/ AdminAddCategory
    \/ AdminDeleteCategory
    \/ AdminAddLocation
    \/ AdminDeleteLocation
    \/ AdminChangePost
    \/ AdminDeletePost
    \/ AdminAddComment
    \/ AdminDeleteComment
    \/ AdminDeleteUser

SpecData == Init /\ [][NextData]_vars

\* ================================================================ claims
\* The visibility rule in the words of the specification (section 4.2),
\* for the post i as it is now, the actor a and the time t.
Viewable(i, a, t) ==
    /\ i \in DOMAIN posts
    /\ \/ posts[i].author = a
       \/ /\ posts[i].pub_date <= t
          /\ posts[i].is_published
          /\ \/ posts[i].category = NULL
             \/ categories[posts[i].category]

\* The post has a category and the category is published.
InPublishedCategory(p) ==
    /\ posts[p].category \in DOMAIN categories
    /\ categories[posts[p].category]

\* C1: a post-detail request by actor A at time T for post id I succeeds
\* with the post iff the post exists and is viewable by A (author, or
\* pub_date <= T, published, category null or published); otherwise it is
\* NotFound.  Stated of the answer to the request just made.
C1_PostDetailContract ==
    resp.op = "post_detail" =>
        IF Viewable(resp.a, resp.user, now)
        THEN resp.status = OK /\ resp.result = {resp.a}
        ELSE resp.status = NOT_FOUND

\* C2: the global feed compares pub_date with the time of the request: a
\* published post in a published category is in the feed of a request made
\* at time T iff its pub_date <= T.
C2_FeedUsesRequestTime ==
    resp.op = "index" =>
        \A p \in DOMAIN posts :
            (posts[p].is_published /\ InPublishedCategory(p)) =>
                (p \in resp.result <=> posts[p].pub_date <= now)

\* C3: the global feed never contains a post whose category is null or
\* unpublished, nor a post that is itself unpublished.
C3_FeedOnlyPublished ==
    resp.op = "index" =>
        \A p \in resp.result :
            /\ p \in DOMAIN posts
            /\ posts[p].category # NULL
            /\ InPublishedCategory(p)
            /\ posts[p].is_published

\* C3 witness: the feed was answered with a post in it while another post,
\* published and due, was left out for its null or unpublished category.
C3_Witness ==
    /\ resp.op = "index"
    /\ resp.result # {}
    /\ \E p \in DOMAIN posts \ resp.result :
          /\ posts[p].is_published
          /\ posts[p].pub_date <= import_now
          /\ ~InPublishedCategory(p)

\* C4: the category feed for slug S is NotFound when no category has the
\* slug or the category is unpublished; otherwise it is exactly the
\* category's published posts with pub_date <= now.
C4_CategoryFeedContract ==
    resp.op = "category_posts" =>
        IF resp.a \notin DOMAIN categories \/ ~categories[resp.a]
        THEN resp.status = NOT_FOUND
        ELSE /\ resp.status = OK
             /\ resp.result = {p \in DOMAIN posts :
                                  /\ posts[p].category = resp.a
                                  /\ posts[p].is_published
                                  /\ posts[p].pub_date <= now}

\* The profile listing of user u as the actor v gets it.
ProfileFeed(u, v) ==
    ProfileView_get_queryset(resolve("profile", u, NULL), v).result

\* C5: the profile feed of user U is NotFound for an unknown username; for
\* the viewer U it is all of U's posts; for any other viewer it is U's
\* posts that are published, due and in a published category; so the
\* owner's listing contains every other viewer's.
C5_ProfileFeedContract ==
    /\ resp.op = "profile" =>
          IF resp.a \notin users THEN resp.status = NOT_FOUND
          ELSE /\ resp.status = OK
               /\ resp.result =
                     {p \in DOMAIN posts :
                         /\ posts[p].author = resp.a
                         /\ \/ resp.user = resp.a
                            \/ /\ posts[p].is_published
                               /\ posts[p].pub_date <= now
                               /\ InPublishedCategory(p)}
    /\ \A u \in users, v \in Actors : ProfileFeed(u, v) \subseteq ProfileFeed(u, u)

\* C5 witness: the owner was shown a post of theirs that another viewer
\* of the same profile is not shown.
C5_Witness ==
    /\ resp.op = "profile"
    /\ resp.status = OK
    /\ resp.user = resp.a
    /\ \E p \in resp.result : p \notin ProfileFeed(resp.a, ANON)
    /\ ProfileFeed(resp.a, ANON) # {}

\* The edit and delete requests on posts, and on comments.
PostMutations == {"edit_post", "delete_post"}
CommentMutations == {"edit_comment", "delete_comment"}

\* Comment c exists and is a comment of post b.
CommentOf(b, c) == c \in DOMAIN comments /\ comments[c].post = b

\* Post p is as it was before the step; comment c likewise.
SamePost(p) == p \in DOMAIN posts' /\ posts'[p] = posts[p]
SameComment(c) == c \in DOMAIN comments' /\ comments'[c] = comments[c]

\* C6: an edit or delete request changes or removes a post (a comment)
\* only if the actor is its author; an authenticated actor who is not the
\* author is redirected to the detail page of the post (of the comment's
\* post) and the target is left as it was.  A step property: the unprimed
\* tables are those the request found.
C6_Step ==
    /\ resp'.op \in PostMutations /\ resp'.a \in DOMAIN posts =>
          /\ ~SamePost(resp'.a) => posts[resp'.a].author = resp'.user
          /\ (resp'.user # ANON /\ posts[resp'.a].author # resp'.user) =>
                /\ resp'.status = REDIRECT_DETAIL
                /\ resp'.result = {resp'.a}
                /\ SamePost(resp'.a)
    /\ resp'.op \in CommentMutations /\ CommentOf(resp'.a, resp'.b) =>
          /\ ~SameComment(resp'.b) => comments[resp'.b].author = resp'.user
          /\ (resp'.user # ANON /\ comments[resp'.b].author # resp'.user) =>
                /\ resp'.status = REDIRECT_DETAIL
                /\ resp'.result = {comments[resp'.b].post}
                /\ SameComment(resp'.b)

C6_OwnerOnlyElseRedirect == [][C6_Step]_vars

\* C7: a comment edit or delete request naming post B and comment C is
\* NotFound whenever C is not a comment of B (another post's comment, or
\* no comment at all), for every actor, and changes no comment.
C7_Step ==
    (resp'.op \in CommentMutations /\ ~CommentOf(resp'.a, resp'.b)) =>
        /\ resp'.status = NOT_FOUND
        /\ comments' = comments

C7_MismatchIsNotFound == [][C7_Step]_vars

\* C7 witness: comment C exists on post A, post B exists too, and C's own
\* author asked for C under B's path and was answered NotFound.
C7_Witness ==
    /\ resp.op \in CommentMutations
    /\ resp.a \in DOMAIN posts
    /\ resp.b \in DOMAIN comments
    /\ comments[resp.b].post # resp.a
    /\ comments[resp.b].author = resp.user
    /\ resp.status = NOT_FOUND

\* C8: an anonymous actor's edit or delete request, on a post or on a
\* comment, is answered with the redirect to login and with nothing else.
C8_AnonymousGetsLogin ==
    (resp.op \in PostMutations \cup CommentMutations /\ resp.user = ANON) =>
        resp.status = REDIRECT_LOGIN

\* C9 (state): every comment has an existing post and an existing author,
\* every post an existing author, and a post's location and category are
\* null or exist.
C9_RefIntegrity ==
    /\ \A c \in DOMAIN comments :
          comments[c].post \in DOMAIN posts /\ comments[c].author \in users
    /\ \A p \in DOMAIN posts :
          /\ posts[p].author \in users
          /\ posts[p].location \in locations \cup {NULL}
          /\ posts[p].category \in DOMAIN categories \cup {NULL}

\* C9 (step): a post goes only by its own deletion or with its author,
\* never with its location or category, whose deletion leaves it in place
\* with the reference null; a comment goes with its post and its author.
C9_Step ==
    /\ \A p \in DOMAIN posts :
          /\ p \notin DOMAIN posts' =>
                \/ posts[p].author \notin users'
                \/ resp'.op \in {"admin_delete_post", "delete_post"} /\ resp'.a = p
          /\ (p \in DOMAIN posts' /\ posts[p].location \notin locations' \cup {NULL})
                => posts'[p] = [posts[p] EXCEPT !.location = NULL]
          /\ (p \in DOMAIN posts' /\ posts[p].category \notin DOMAIN categories' \cup {NULL})
                => posts'[p] = [posts[p] EXCEPT !.category = NULL]
    /\ \A c \in DOMAIN comments :
          (comments[c].post \notin DOMAIN posts' \/ comments[c].author \notin users')
              => c \notin DOMAIN comments'

\* C9: referential integrity holds in every reachable state, and every
\* deletion cascades or sets null in the step that deletes.
C9_ReferentialIntegrity == []C9_RefIntegrity /\ [][C9_Step]_vars

\* C9 witness: a post was just deleted and a comment went with it, while a
\* post whose category was deleted earlier is still there.
C9_Witness ==
    /\ resp.op = "admin_delete_post"
    /\ resp.b > 0
    /\ \E p \in DOMAIN posts : posts[p].category = NULL

\* C10: a post's author is the actor who created it and a comment's author
\* and post are the actor and the post it was created with; no step
\* changes them afterwards.
C10_Step ==
    /\ \A p \in DOMAIN posts \cap DOMAIN posts' :
          posts'[p].author = posts[p].author
    /\ \A c \in DOMAIN comments \cap DOMAIN comments' :
          /\ comments'[c].author = comments[c].author
          /\ comments'[c].post = comments[c].post
    /\ resp'.op = "create_post" =>
          \A p \in DOMAIN posts' \ DOMAIN posts : posts'[p].author = resp'.user
    /\ resp'.op = "add_comment" =>
          \A c \in DOMAIN comments' \ DOMAIN comments :
              /\ comments'[c].author = resp'.user
              /\ comments'[c].post = resp'.a

C10_AuthorImmutable == [][C10_Step]_vars

\* C10 witness: the author of a comment has just edited it (the form was
\* saved) on a post written by the other user, created through the form.
C10_Witness ==
    /\ resp.op = "edit_comment"
    /\ CommentOf(resp.a, resp.b)
    /\ comments[resp.b].author = resp.user
    /\ resp.status \notin {FORM_INVALID, NOT_FOUND, REDIRECT_LOGIN}
    /\ posts[resp.a].author # resp.user

\* The category listing of slug s and the detail page of post p as the
\* views compute them for actor v when handed the keyword arguments they
\* read (category_slug, post_id).
CategoryFeed(s, v) ==
    CategoryListView_get_queryset([k \in {"category_slug"} |-> s], v).result

DetailStatus(p, v) ==
    PostDetailView_get_object([k \in {"post_id"} |-> p], v).status

\* The posts some listing shows to actor v now.
Listed(v) ==
    PostListView_queryset
        \cup UNION {CategoryFeed(s, v) : s \in Slugs}
        \cup UNION {ProfileFeed(u, v) : u \in users}

\* C11: no listing shows an actor more than the detail page allows: every
\* post the global feed, a category feed or a profile feed returns to actor
\* A at time T is viewable by A at T, so the detail view does not answer
\* NotFound for it.  Stated of the answer to the listing request just made
\* and of every listing the views compute in the current state.
C11_ListingsWithinVisibility ==
    /\ resp.op \in {"index", "category_posts", "profile"} =>
          \A p \in resp.result : Viewable(p, resp.user, now)
    /\ \A v \in Actors : \A p \in Listed(v) :
          /\ Viewable(p, v, now)
          /\ DetailStatus(p, v) = OK

\* C11 witness: a listing was answered to an actor with a post of someone
\* else in it, while another post exists that this actor may not view.
C11_Witness ==
    /\ resp.op \in {"index", "profile"}
    /\ \E p \in resp.result : posts[p].author # resp.user
    /\ \E q \in DOMAIN posts : ~Viewable(q, resp.user, now)
    /\ \E s \in Slugs : CategoryFeed(s, resp.user) # {}

====
